---- MODULE Spec2Model ----
(***************************************************************************)
(* Model of src/Util/Exception.h of cuOmmBaking: the Exception type, the   *)
(* assertion macros OMM_ASSERT / OMM_ASSERT_MSG, the four CUDA result      *)
(* checks and the call-site wrappers OMM_CUDA_CHECK and                    *)
(* OMM_CUDA_CHECK_NOTHROW in their debug and release expansions.           *)
(*                                                                         *)
(* Text is a sequence of one-character strings, so that "contains" and     *)
(* "equals" are about the characters that end up in a message.  Every      *)
(* check is a one-shot evaluation at a call site: a behaviour picks the    *)
(* build configuration, then runs one operation to its outcome.            *)
(***************************************************************************)
EXTENDS Integers, Sequences, FiniteSets

\* Number of distinct non-success device result codes explored.
MaxErrorCode == 2

\* ------------------------------------------------------------------------
\* Text
\* ------------------------------------------------------------------------

DigitChars == <<"0", "1", "2", "3", "4", "5", "6", "7", "8", "9">>

\* operator<<( unsigned int ): decimal digits, no padding.
RECURSIVE Dec(_)
Dec(n) == IF n < 10 THEN <<DigitChars[n + 1]>>
          ELSE Dec(n \div 10) \o <<DigitChars[(n % 10) + 1]>>

\* t has s as a contiguous substring.
Contains(t, s) == \E i \in 0..(Len(t) - Len(s)) : SubSeq(t, i + 1, i + Len(s)) = s

Nul == "\\0"

\* std::string::c_str() read back as a C string: the characters before the
\* first NUL.
RECURSIVE c_str(_)
c_str(s) == IF s = <<>> \/ Head(s) = Nul THEN <<>> ELSE <<Head(s)>> \o c_str(Tail(s))

\* String literals of the header.
CallPrefix == <<"C", "U", "D", "A", " ", "c", "a", "l", "l", " ", "(">>
FailedWith == <<" ", ")", " ", "f", "a", "i", "l", "e", "d", " ", "w", "i", "t", "h", " ", "e", "r", "r", "o", "r", ":", " ", "'">>
QuoteParen == <<"'", " ", "(">>
Colon      == <<":">>
ParenNl    == <<")", "\n">>
SpaceParen == <<" ", "(">>
ParenColon == <<")", ":", " ">>
ColonSpace == <<":", " ">>

\* __FILE__ and __LINE__ as they expand inside the header itself.
HeaderFile == <<"E", "x", "c", "e", "p", "t", "i", "o", "n", ".", "h">>
HeaderLine == 110

\* ------------------------------------------------------------------------
\* Call-site inputs (NUL-terminated C strings, so no embedded NUL)
\* ------------------------------------------------------------------------

build_cpp == <<"b", "u", "i", "l", "d", ".", "c", "p", "p">>
setup_cpp == <<"s", "e", "t", "u", "p", ".", "c", "p", "p">>
Files == {build_cpp, setup_cpp}

Lines == {10, 42, 77}

computeLaunch == <<"c", "o", "m", "p", "u", "t", "e", "L", "a", "u", "n", "c", "h", "(", ".", ".", ".", ")">>
cudaFree_p    == <<"c", "u", "d", "a", "F", "r", "e", "e", "(", "p", ")">>
Exprs == {computeLaunch, cudaFree_p}

ptr_ne_null == <<"p", "t", "r", " ", "!", "=", " ", "n", "u", "l", "l">>
n_gt_0      == <<"n", " ", ">", " ", "0">>
CondTexts == {ptr_ne_null, n_gt_0}

invalid_size == <<"i", "n", "v", "a", "l", "i", "d", " ", "s", "i", "z", "e">>
oops         == <<"o", "o", "p", "s">>
Msgs == {invalid_size, oops}

\* ------------------------------------------------------------------------
\* Device API
\* ------------------------------------------------------------------------

cudaSuccess  == 0
CUDA_SUCCESS == 0

\* Result values a device call can return: the success sentinel and the
\* error codes the API knows a description for.
DeviceResults == 0..MaxErrorCode

Apis == {"cudaError_t", "CUresult"}

\* cudaGetErrorString( error ): one distinct description per code.
cudaGetErrorString(error) == <<"c", "u", "d", "a", "E", "r", "r", "o", "r", " ">> \o Dec(error)

\* cuGetErrorString( result, &errorStr ): the description stored in errorStr.
cuGetErrorString(result) == <<"C", "U", "D", "A", "_", "E", "R", "R", "O", "R", " ">> \o Dec(result)

\* ------------------------------------------------------------------------
\* Exception
\* ------------------------------------------------------------------------

\* Default member initializer of Exception::m_result.
m_result_default_mut == "ERROR_CUDA"
m_result_default == "SUCCESS"

\* Exception( Result result, const char* msg ) and the std::string overload.
Exception(result, msg) == [m_result |-> result, what |-> msg]

\* Exception( msg ): the message-only construction the assertion macros use.
\* m_result is not named by the caller and keeps its default initializer.
ExceptionFromMessage(msg) == [m_result |-> m_result_default, what |-> msg]

\* Exception::getResult()
getResult(e) == e.m_result

\* ------------------------------------------------------------------------
\* Outcomes of one evaluation
\*   status    "returned" | "raised" | "terminated"
\*   exception <<>> or <<e>>: the Exception propagating to the caller
\*   cerr      text written to std::cerr
\*   ss        text accumulated in the local std::stringstream
\*   events    the device-facing steps taken, in order
\*   results   the device results obtained, in order
\* ------------------------------------------------------------------------

Returned == [status |-> "returned", exception |-> <<>>, cerr |-> <<>>, ss |-> <<>>,
             events |-> <<>>, results |-> <<>>]

Throw(e, ssText) == [Returned EXCEPT !.status = "raised", !.exception = <<e>>, !.ss = ssText]

Terminate(text) == [Returned EXCEPT !.status = "terminated", !.cerr = text]

\* ------------------------------------------------------------------------
\* Assertions
\* ------------------------------------------------------------------------

OMM_ASSERT_mut(cond, condText, file, line) ==
    IF ~cond
    THEN LET ss == file \o Colon \o Dec(line) \o ColonSpace \o condText
         IN Throw(ExceptionFromMessage(c_str(ss)), ss)
    ELSE Returned

OMM_ASSERT(cond, condText, file, line) ==
    IF ~cond
    THEN LET ss == file \o SpaceParen \o Dec(line) \o ParenColon \o condText
         IN Throw(ExceptionFromMessage(c_str(ss)), ss)
    ELSE Returned

OMM_ASSERT_MSG_mut(cond, condText, msg, file, line) ==
    IF ~cond
    THEN LET ss == file \o SpaceParen \o Dec(line) \o ParenColon \o condText \o ColonSpace \o msg
         IN Throw(ExceptionFromMessage(c_str(ss)), ss)
    ELSE Returned

OMM_ASSERT_MSG(cond, condText, msg, file, line) ==
    IF ~cond
    THEN LET ss == msg \o ColonSpace \o file \o SpaceParen \o Dec(line) \o ParenColon \o condText
         IN Throw(ExceptionFromMessage(c_str(ss)), ss)
    ELSE Returned

\* ------------------------------------------------------------------------
\* CUDA error-checking
\* ------------------------------------------------------------------------

\* The file and line parameters are unnamed in this overload; the message
\* uses __FILE__ and __LINE__ of the header.
checkCudaError_cudaError_t(error, expr, file, line) ==
    IF error # cudaSuccess
    THEN LET ss == CallPrefix \o expr \o FailedWith \o cudaGetErrorString(error)
                   \o QuoteParen \o HeaderFile \o Colon \o Dec(HeaderLine) \o ParenNl
         IN Throw(Exception("ERROR_CUDA", c_str(ss)), ss)
    ELSE Returned

checkCudaErrorNoThrow_cudaError_t(error, expr, file, line) ==
    IF error # cudaSuccess
    THEN Terminate(CallPrefix \o expr \o FailedWith \o cudaGetErrorString(error)
                   \o QuoteParen \o file \o Colon \o Dec(line) \o ParenNl)
    ELSE Returned

checkCudaError_CUresult(result, expr, file, line) ==
    IF result # CUDA_SUCCESS
    THEN LET errorStr == cuGetErrorString(result)
             ss == CallPrefix \o expr \o FailedWith \o errorStr
                   \o QuoteParen \o file \o Colon \o Dec(line) \o ParenNl
         IN Throw(Exception("ERROR_CUDA", c_str(ss)), ss)
    ELSE Returned

checkCudaErrorNoThrow_CUresult_mut(result, expr, file, line) ==
    LET errorStr == cuGetErrorString(result)
    IN Terminate(CallPrefix \o expr \o FailedWith \o errorStr
                 \o QuoteParen \o file \o Colon \o Dec(line) \o ParenNl)

checkCudaErrorNoThrow_CUresult(result, expr, file, line) ==
    IF result # CUDA_SUCCESS
    THEN LET errorStr == cuGetErrorString(result)
         IN Terminate(CallPrefix \o expr \o FailedWith \o errorStr
                      \o QuoteParen \o file \o Colon \o Dec(line) \o ParenNl)
    ELSE Returned

\* Overload resolution on the static type of the checked result.
checkCudaError(api, error, expr, file, line) ==
    IF api = "cudaError_t" THEN checkCudaError_cudaError_t(error, expr, file, line)
    ELSE checkCudaError_CUresult(error, expr, file, line)

checkCudaErrorNoThrow(api, error, expr, file, line) ==
    IF api = "cudaError_t" THEN checkCudaErrorNoThrow_cudaError_t(error, expr, file, line)
    ELSE checkCudaErrorNoThrow_CUresult(error, expr, file, line)

\* ------------------------------------------------------------------------
\* Call-site wrappers
\* ------------------------------------------------------------------------

\* One statement of a wrapper: obtain a device result (evaluate the wrapped
\* call, or cudaDeviceSynchronize()), then pass it to a check.
Stmt(ev, result, outcome) ==
    [outcome EXCEPT !.events = <<ev, "check">>, !.results = <<result>>]

\* Sequential composition: the second statement runs only when the first
\* returned normally.
Sequence2(first, second) ==
    IF first.status # "returned" THEN first
    ELSE [second EXCEPT !.events = first.events \o second.events,
                        !.results = first.results \o second.results,
                        !.cerr = first.cerr \o second.cerr]

\* #ifndef NDEBUG
OMM_CUDA_CHECK_debug_mut(api, r, s, expr, file, line) ==
    LET first  == checkCudaError(api, r, expr, file, line)
        second == checkCudaError("cudaError_t", s, expr, file, line)
    IN [(IF second.status # "returned" THEN second ELSE first)
            EXCEPT !.events = <<"call", "sync", "check", "check">>, !.results = <<r, s>>]

OMM_CUDA_CHECK_debug(api, r, s, expr, file, line) ==
    Sequence2(Stmt("call", r, checkCudaError(api, r, expr, file, line)),
              Stmt("sync", s, checkCudaError("cudaError_t", s, expr, file, line)))

OMM_CUDA_CHECK_NOTHROW_debug(api, r, s, expr, file, line) ==
    Sequence2(Stmt("call", r, checkCudaErrorNoThrow(api, r, expr, file, line)),
              Stmt("sync", s, checkCudaError("cudaError_t", s, expr, file, line)))

\* #else
OMM_CUDA_CHECK_release(api, r, s, expr, file, line) ==
    Stmt("call", r, checkCudaError(api, r, expr, file, line))

OMM_CUDA_CHECK_NOTHROW_release(api, r, s, expr, file, line) ==
    Stmt("call", r, checkCudaErrorNoThrow(api, r, expr, file, line))

\* The build configuration selects the expansion.
OMM_CUDA_CHECK_mut(NDEBUG, api, r, s, expr, file, line) ==
    IF NDEBUG THEN OMM_CUDA_CHECK_debug(api, r, s, expr, file, line)
    ELSE OMM_CUDA_CHECK_release(api, r, s, expr, file, line)

OMM_CUDA_CHECK(NDEBUG, api, r, s, expr, file, line) ==
    IF ~NDEBUG THEN OMM_CUDA_CHECK_debug(api, r, s, expr, file, line)
    ELSE OMM_CUDA_CHECK_release(api, r, s, expr, file, line)

OMM_CUDA_CHECK_NOTHROW(NDEBUG, api, r, s, expr, file, line) ==
    IF ~NDEBUG THEN OMM_CUDA_CHECK_NOTHROW_debug(api, r, s, expr, file, line)
    ELSE OMM_CUDA_CHECK_NOTHROW_release(api, r, s, expr, file, line)

\* ------------------------------------------------------------------------
\* State
\* ------------------------------------------------------------------------

VARIABLES
    ndebug,     \* build configuration: TRUE when NDEBUG is defined (release)
    pc,         \* "idle" | "returned" | "raised" | "terminated"
    site,       \* the operation evaluated and its call-site inputs
    exception,  \* <<>> or <<e>>: the Exception propagating to the caller
    cerr,       \* text written to std::cerr
    ss,         \* text built in the local stringstream
    events,     \* device-facing steps of the evaluation, in order
    results     \* device results obtained, in order

vars == <<ndebug, pc, site, exception, cerr, ss, events, results>>

NoSite == [op |-> "none", api |-> "none", expr |-> <<>>, file |-> <<>>, line |-> 0,
           cond |-> TRUE, msg |-> <<>>]

Init ==
    /\ ndebug \in BOOLEAN
    /\ pc = "idle"
    /\ site = NoSite
    /\ exception = <<>>
    /\ cerr = <<>>
    /\ ss = <<>>
    /\ events = <<>>
    /\ results = <<>>

\* The evaluation at `s` ended with outcome `o`.
Finish(s, o) ==
    /\ pc' = o.status
    /\ site' = s
    /\ exception' = o.exception
    /\ cerr' = o.cerr
    /\ ss' = o.ss
    /\ events' = o.events
    /\ results' = o.results
    /\ UNCHANGED ndebug

\* A direct call of checkCudaError( error, expr, file, line ).
CallCheckCudaError ==
    \E api \in Apis, error \in DeviceResults, expr \in Exprs, file \in Files, line \in Lines :
        /\ pc = "idle"
        /\ Finish([NoSite EXCEPT !.op = "checkCudaError", !.api = api, !.expr = expr,
                              !.file = file, !.line = line],
               Stmt("call", error, checkCudaError(api, error, expr, file, line)))

\* A direct call of checkCudaErrorNoThrow( error, expr, file, line ).
CallCheckCudaErrorNoThrow ==
    \E api \in Apis, error \in DeviceResults, expr \in Exprs, file \in Files, line \in Lines :
        /\ pc = "idle"
        /\ Finish([NoSite EXCEPT !.op = "checkCudaErrorNoThrow", !.api = api, !.expr = expr,
                              !.file = file, !.line = line],
               Stmt("call", error, checkCudaErrorNoThrow(api, error, expr, file, line)))

\* OMM_CUDA_CHECK( call ) at file:line; r is the result of call, s the
\* result cudaDeviceSynchronize() returns if it is issued.
CudaCheck ==
    \E api \in Apis, r \in DeviceResults, s \in DeviceResults,
       expr \in Exprs, file \in Files, line \in Lines :
        /\ pc = "idle"
        /\ Finish([NoSite EXCEPT !.op = "OMM_CUDA_CHECK", !.api = api, !.expr = expr,
                              !.file = file, !.line = line],
               OMM_CUDA_CHECK(ndebug, api, r, s, expr, file, line))

\* OMM_CUDA_CHECK_NOTHROW( call ) at file:line.
CudaCheckNoThrow ==
    \E api \in Apis, r \in DeviceResults, s \in DeviceResults,
       expr \in Exprs, file \in Files, line \in Lines :
        /\ pc = "idle"
        /\ Finish([NoSite EXCEPT !.op = "OMM_CUDA_CHECK_NOTHROW", !.api = api, !.expr = expr,
                              !.file = file, !.line = line],
               OMM_CUDA_CHECK_NOTHROW(ndebug, api, r, s, expr, file, line))

\* OMM_ASSERT( cond ) at file:line.
PreconditionCheck ==
    \E cond \in BOOLEAN, condText \in CondTexts, file \in Files, line \in Lines :
        /\ pc = "idle"
        /\ Finish([NoSite EXCEPT !.op = "OMM_ASSERT", !.expr = condText, !.cond = cond,
                              !.file = file, !.line = line],
               OMM_ASSERT(cond, condText, file, line))

\* OMM_ASSERT_MSG( cond, msg ) at file:line.
PreconditionCheckMsg ==
    \E cond \in BOOLEAN, condText \in CondTexts, msg \in Msgs, file \in Files, line \in Lines :
        /\ pc = "idle"
        /\ Finish([NoSite EXCEPT !.op = "OMM_ASSERT_MSG", !.expr = condText, !.cond = cond,
                              !.msg = msg, !.file = file, !.line = line],
               OMM_ASSERT_MSG(cond, condText, msg, file, line))

Next ==
    \/ CallCheckCudaError
    \/ CallCheckCudaErrorNoThrow
    \/ CudaCheck
    \/ CudaCheckNoThrow
    \/ PreconditionCheck
    \/ PreconditionCheckMsg

Spec == Init /\ [][Next]_vars

TypeOK ==
    /\ ndebug \in BOOLEAN
    /\ pc \in {"idle", "returned", "raised", "terminated"}
    /\ Len(exception) <= 1
    /\ (pc = "raised") = (exception # <<>>)
    /\ Len(results) = Cardinality({i \in 1..Len(events) : events[i] # "check"})

\* ------------------------------------------------------------------------
\* Properties
\* ------------------------------------------------------------------------

Done == pc # "idle"

CheckFunctions == {"checkCudaError", "checkCudaErrorNoThrow"}
Wrappers       == {"OMM_CUDA_CHECK", "OMM_CUDA_CHECK_NOTHROW"}
AssertMacros   == {"OMM_ASSERT", "OMM_ASSERT_MSG"}

\* The success sentinel of the wrapped call's result type.
Success(api) == IF api = "cudaError_t" THEN cudaSuccess ELSE CUDA_SUCCESS

\* The description the device API gives for a result of the given type.
ErrorText(api, r) == IF api = "cudaError_t" THEN cudaGetErrorString(r) ELSE cuGetErrorString(r)

\* The wrapped call's check was the last one made (no synchronization).
OnlyCallChecked == events = <<"call", "check">>

\* t names the three pieces of call-site context.
HasContext(t) ==
    /\ Contains(t, site.expr)
    /\ Contains(t, site.file)
    /\ Contains(t, Dec(site.line))

\* t has the shape "... call (<expr> ... failed with error: '<text>' (<file>:<line>)".
HasDeviceForm(t, errText) ==
    /\ Contains(t, <<"c", "a", "l", "l", " ", "(">> \o site.expr)
    /\ Contains(t, <<"f", "a", "i", "l", "e", "d", " ", "w", "i", "t", "h", " ", "e", "r", "r", "o", "r", ":", " ", "'">>
                   \o errText \o <<"'", " ", "(">> \o site.file \o <<":">> \o Dec(site.line) \o <<")">>)

\* C1: a non-success result passed to the throwing check (either overload,
\* called directly or through OMM_CUDA_CHECK) raises an Exception whose
\* getResult() is ERROR_CUDA and whose message contains the passed
\* expression text, the passed file name and the passed line number.
C1_ThrowingCheckReportsCallSite ==
    (site.op \in {"checkCudaError", "OMM_CUDA_CHECK"} /\ Done /\ results[Len(results)] # 0)
        => /\ pc = "raised"
           /\ getResult(exception[1]) = "ERROR_CUDA"
           /\ HasContext(exception[1].what)

\* C2: the non-throwing check and the OMM_CUDA_CHECK_NOTHROW wrapper never
\* end with an Exception propagating to the caller, in either build; a
\* non-success wrapped result ends in termination after a diagnostic with
\* expression text, file and line was written to the error stream.
C2_NoThrowNeverRaises ==
    (site.op \in {"checkCudaErrorNoThrow", "OMM_CUDA_CHECK_NOTHROW"} /\ Done)
        => /\ pc # "raised"
           /\ exception = <<>>
           /\ (results[1] # Success(site.api)
                  => pc = "terminated" /\ HasContext(cerr))

\* C3: given the success sentinel, each check function (either overload)
\* returns normally: no Exception, nothing on the error stream, no message
\* built, no termination.
C3_SuccessIsNoOp ==
    (site.op \in CheckFunctions /\ Done /\ results[1] = Success(site.api))
        => /\ pc = "returned"
           /\ exception = <<>>
           /\ cerr = <<>>
           /\ ss = <<>>

C3_Witness ==
    /\ site.op = "checkCudaErrorNoThrow"
    /\ site.api = "CUresult"
    /\ results = <<CUDA_SUCCESS>>
    /\ pc = "returned"

\* C4: in a debug build each wrapper issues the synchronization right after
\* the wrapped call was checked, and a failed synchronization is reported
\* the way the wrapper reports the wrapped call: OMM_CUDA_CHECK raises with
\* ERROR_CUDA, OMM_CUDA_CHECK_NOTHROW writes the diagnostic and terminates
\* without raising.
C4_DebugSyncCheckedSameWay ==
    (~ndebug /\ site.op \in Wrappers /\ Done /\ results[1] = Success(site.api))
        => /\ events = <<"call", "check", "sync", "check">>
           /\ Len(results) = 2
           /\ (results[2] # cudaSuccess =>
                 IF site.op = "OMM_CUDA_CHECK"
                 THEN pc = "raised" /\ getResult(exception[1]) = "ERROR_CUDA"
                 ELSE pc = "terminated" /\ exception = <<>> /\ cerr # <<>>)

\* C5: OMM_ASSERT(cond) with cond false raises (never terminates) an
\* Exception whose message is exactly "<file> (<line>): <condition text>";
\* with cond true nothing is raised and no message is built.
C5_AssertMessage ==
    (site.op = "OMM_ASSERT" /\ Done)
        => /\ pc # "terminated"
           /\ cerr = <<>>
           /\ IF site.cond
              THEN pc = "returned" /\ exception = <<>> /\ ss = <<>>
              ELSE /\ pc = "raised"
                   /\ exception[1].what =
                        site.file \o <<" ", "(">> \o Dec(site.line) \o <<")", ":", " ">> \o site.expr

C5_Witness ==
    /\ site.op = "OMM_ASSERT"
    /\ ~site.cond
    /\ site.file = setup_cpp /\ site.line = 10 /\ site.expr = ptr_ne_null
    /\ pc = "raised"
    /\ exception[1].what = <<"s", "e", "t", "u", "p", ".", "c", "p", "p", " ", "(", "1", "0", ")", ":", " ",
                             "p", "t", "r", " ", "!", "=", " ", "n", "u", "l", "l">>

\* C6: OMM_ASSERT_MSG(cond, msg) with cond false raises an Exception whose
\* message is msg, then ": ", then the message OMM_ASSERT produces at the
\* same site for the same condition.
C6_AssertMsgPrependsMessage ==
    (site.op = "OMM_ASSERT_MSG" /\ Done /\ ~site.cond)
        => /\ pc = "raised"
           /\ exception[1].what =
                site.msg \o <<":", " ">>
                \o OMM_ASSERT(FALSE, site.expr, site.file, site.line).exception[1].what

C6_Witness ==
    /\ site.op = "OMM_ASSERT_MSG"
    /\ ~site.cond
    /\ site.msg = invalid_size /\ site.line = 77
    /\ pc = "raised"
    /\ exception[1].what = <<"i", "n", "v", "a", "l", "i", "d", " ", "s", "i", "z", "e", ":", " ",
                             "b", "u", "i", "l", "d", ".", "c", "p", "p", " ", "(", "7", "7", ")", ":", " ",
                             "n", " ", ">", " ", "0">>

C8_DiagnosticEqualsMessage ==
    /\ (site.op = "checkCudaError" /\ pc = "raised")
          => /\ exception[1].what =
                  checkCudaErrorNoThrow(site.api, results[1], site.expr, site.file, site.line).cerr
             /\ HasDeviceForm(exception[1].what, ErrorText(site.api, results[1]))
    /\ (site.op = "checkCudaErrorNoThrow" /\ pc = "terminated")
          => /\ <<cerr>> =
                  [i \in 1..Len(checkCudaError(site.api, results[1], site.expr, site.file, site.line).exception)
                      |-> checkCudaError(site.api, results[1], site.expr, site.file, site.line).exception[i].what]
             /\ HasDeviceForm(cerr, ErrorText(site.api, results[1]))

\* C9: the build configuration alone decides whether a wrapper synchronizes:
\* in a release build each wrapper checks the wrapped call once and never
\* synchronizes, so a successful wrapped call returns normally; in a debug
\* build a successful wrapped call is always followed by the
\* synchronization and its check.
C9_BuildSelectsSync ==
    (site.op \in Wrappers /\ Done)
        => /\ ndebug => /\ OnlyCallChecked
                        /\ Len(results) = 1
                        /\ (results[1] = Success(site.api) => pc = "returned")
           /\ (~ndebug /\ results[1] = Success(site.api))
                  => events = <<"call", "check", "sync", "check">>

C9_Witness ==
    /\ ndebug
    /\ site.op \in Wrappers
    /\ results = <<Success(site.api)>>
    /\ pc = "returned"
    /\ OnlyCallChecked

\* C10: one wrapper invocation evaluates the wrapped call once, in the order
\* call, check, synchronize, check; a non-success wrapped result ends the
\* invocation (raise in OMM_CUDA_CHECK, termination in
\* OMM_CUDA_CHECK_NOTHROW) before any synchronization, so at most one
\* failure is reported and it is the earliest one.
C10_OrderedSingleReport ==
    (site.op \in Wrappers /\ Done)
        => /\ Cardinality({i \in 1..Len(events) : events[i] = "call"}) = 1
           /\ events \in {<<"call", "check">>, <<"call", "check", "sync", "check">>}
           /\ (results[1] # Success(site.api)
                  => /\ OnlyCallChecked
                     /\ pc = (IF site.op = "OMM_CUDA_CHECK" THEN "raised" ELSE "terminated"))
           /\ Len(exception) + (IF cerr # <<>> THEN 1 ELSE 0) <= 1
           /\ \A i \in 1..(Len(results) - 1) : results[i] = 0
           /\ (pc # "returned") = (results[Len(results)] # 0)

C10_Witness ==
    /\ ~ndebug
    /\ site.op = "OMM_CUDA_CHECK"
    /\ results[1] # Success(site.api)
    /\ pc = "raised"
    /\ events = <<"call", "check">>

====
